---- MODULE Spec2Model ----
(***************************************************************************)
(* The authorization and token issuance engine of mcp2: the in-memory      *)
(* credential store, POST /authorize/complete, POST /token (both grants),  *)
(* the bearer middleware, the Privy token exchange endpoint and the        *)
(* periodic cleanup, as one state machine.                                 *)
(*                                                                         *)
(* Time is counted in ticks of 1/TicksPerSecond seconds.  Date.now() is    *)
(* the tick counter `now`; the JWT library's clock is now \div             *)
(* TicksPerSecond (whole seconds).                                         *)
(*                                                                         *)
(* A JavaScript string that is absent, undefined or empty is Absent; the   *)
(* code tests all three with `!x`.  A space-separated scope string is the  *)
(* sequence of its words, the empty string being the empty sequence.       *)
(***************************************************************************)
EXTENDS Integers, Sequences, FiniteSets, TLC

\* ------------------------------------------------------------------ bounds
MaxCodes == 2
MaxRefresh == 2
MaxPending == 2
TicksPerSecond == 2

\* ------------------------------------------------------- program constants
CODE_TTL_MS == 30000
JWT_EXPIRES_IN_S == 3600
REFRESH_TOKEN_TTL_S == 30 * 24 * 60 * 60

CodeTtl == (CODE_TTL_MS * TicksPerSecond) \div 1000
RefreshTokenTtl == REFRESH_TOKEN_TTL_S * TicksPerSecond
AccessRecordTtl == JWT_EXPIRES_IN_S * TicksPerSecond

Absent == ""
Falsy(x) == x = Absent

BaseUrl == "http://localhost:3002"
Issuer == BaseUrl
ScopesSupported == {"read", "write", "profile", "privy:token:exchange"}
BridgeScope == "privy:token:exchange"

STATIC_CLIENT_ID == "chatgpt-connector"
STATIC_REDIRECT_URIS ==
    {"https://chat.openai.com/connector_platform_oauth_redirect",
     "https://chatgpt.com/connector_platform_oauth_redirect"}
UriA == "https://chat.openai.com/connector_platform_oauth_redirect"
UriB == "https://chatgpt.com/connector_platform_oauth_redirect"
UriEvil == "https://evil.com/steal-code"

\* the registered clients: only the static client, never mutated
registeredClients ==
    [c \in {STATIC_CLIENT_ID} |-> [clientId |-> c, redirectUris |-> STATIC_REDIRECT_URIS]]

\* ------------------------------------------------------------ pure helpers
Range(s) == {s[i] : i \in DOMAIN s}

RECURSIVE FilterSeq(_, _)
FilterSeq(s, keep) ==
    IF s = <<>> THEN <<>>
    ELSE IF Head(s) \in keep THEN <<Head(s)>> \o FilterSeq(Tail(s), keep)
    ELSE FilterSeq(Tail(s), keep)

\* "a b".split(' ') and [a, b].join(' ') on the word representation:
\* "".split(' ') is [""], and [""].join(' ') is "".
SplitWords(str) == IF str = <<>> THEN <<Absent>> ELSE str
JoinWords(arr) == IF arr = <<Absent>> THEN <<>> ELSE arr

\* PKCE: the S256 transform.  SHA-256 is a tagged (collision-free) digest of
\* its input; the digest is encoded base64url with or without '=' padding.
Sha256(v) == "sha256(" \o v \o ")"
Base64UrlNoPad(d) == "b64url:" \o d
Base64UrlPadded(d) == "b64url:" \o d \o "="
CodeChallengeOf(v) == Base64UrlNoPad(Sha256(v))

validatePKCE(codeVerifier, codeChallenge) ==
    Base64UrlNoPad(Sha256(codeVerifier)) = codeChallenge

\* The identity verifier (PrivyClient.verifyAuthToken): the tokens it accepts
\* and the user each one belongs to; every other token makes it throw.
PrivyUsers ==
    [t \in {"privy-tok-A", "privy-tok-B", "privy-tok-C"} |->
        IF t = "privy-tok-C" THEN "did:privy:user-2" ELSE "did:privy:user-1"]
PrivyAccepts(t) == t \in DOMAIN PrivyUsers
verifyAuthToken(t) == [userId |-> PrivyUsers[t], appId |-> "test-app-id"]

\* jwt.sign with RS256 (a deterministic signature), keyid key-1, issuer and
\* expiresIn '1h': the token string is a function of its claims, and iat is
\* the clock in whole seconds.
JwtSign(payload, t) ==
    [sub |-> payload.sub, scope |-> payload.scope, aud |-> payload.aud,
     client_id |-> payload.client_id, iss |-> Issuer,
     iat |-> t \div TicksPerSecond,
     exp |-> (t \div TicksPerSecond) + JWT_EXPIRES_IN_S,
     sig |-> "key-1"]

\* jwt.verify(token, publicKey, {algorithms, issuer, audience})
JwtVerifiesAnyAudience(token, t, audience) ==
    /\ token.sig = "key-1"
    /\ ~((t \div TicksPerSecond) >= token.exp)
    /\ token.iss = Issuer
JwtVerifies(token, t, audience) ==
    /\ token.sig = "key-1"
    /\ ~((t \div TicksPerSecond) >= token.exp)
    /\ token.iss = Issuer
    /\ token.aud = audience

\* ------------------------------------------------------------------- state
VARIABLES
    now,                 \* Date.now(), in ticks
    authorizationCodes,  \* storage.ts: Map<string, AuthorizationCode>
    tokens,              \* storage.ts: Map<string, TokenData>, keyed by the JWT
    refreshTokens,       \* storage.ts: Map<string, RefreshTokenData>
    nextCode,            \* the next random authorization code
    nextRefresh,         \* the next random refresh token
    pending,             \* POST /token requests received and not yet handled
    last,                \* the HTTP exchange being answered, or Idle
    issued,              \* history: every code ever stored, as stored
    lineage,             \* history: refresh token -> the code it descends from
    minted,              \* history: <<jwt, code>> for every successful grant
    redeemed,            \* history: code -> number of successful redemptions
    attempts,            \* history: code or refresh token -> matching requests handled
                         \* that were in flight with another one for it (up to 2)
    browser              \* the user agent: no page, the authorize page, or the
                         \* URL it has been sent to

stores == <<authorizationCodes, tokens, refreshTokens>>
ghosts == <<issued, lineage, minted, redeemed, attempts>>
vars == <<now, authorizationCodes, tokens, refreshTokens, nextCode,
          nextRefresh, pending, last, issued, lineage, minted, redeemed, attempts,
          browser>>

Idle == [op |-> "idle"]
NoPage == [view |-> "none"]

CodeValue(n) == "code-" \o ToString(n)
RefreshValue(n) == "rt-" \o ToString(n)
UnknownCode == "invalid-code-xyz"
UnknownRefresh == "invalid-token"

Init ==
    /\ now = 0
    /\ authorizationCodes = <<>>
    /\ tokens = <<>>
    /\ refreshTokens = <<>>
    /\ nextCode = 1
    /\ nextRefresh = 1
    /\ pending = {}
    /\ last = Idle
    /\ issued = <<>>
    /\ lineage = <<>>
    /\ minted = {}
    /\ redeemed = <<>>
    /\ attempts = <<>>
    /\ browser = NoPage

\* Map.set / Map.delete on a function
MapSet(m, k, v) == [x \in DOMAIN m \cup {k} |-> IF x = k THEN v ELSE m[x]]
MapDelete(m, k) == [x \in DOMAIN m \ {k} |-> m[x]]

NoError == [status |-> 200]
OAuthError(status, error, description) ==
    [status |-> status,
     body |-> [error |-> error, error_description |-> description]]

\* ------------------------------------------------- POST /authorize/complete
\* The scopes kept from the request: 'read' when none is requested, else the
\* requested words that the server supports.
RequestedScopesUnfiltered(scope) ==
    IF scope = <<>> THEN <<"read">> ELSE SplitWords(scope)
RequestedScopes(scope) ==
    IF scope = <<>> THEN <<"read">> ELSE FilterSeq(SplitWords(scope), ScopesSupported)

FinalScopesNoBridge(scope) == RequestedScopes(scope)
\* Always include privy:token:exchange for MCP
FinalScopes(scope) ==
    LET validScopes == RequestedScopes(scope) IN
    IF BridgeScope \in Range(validScopes) THEN validScopes
    ELSE Append(validScopes, BridgeScope)

\* privyClient.verifyAuthToken(privy_token), and on its failure
\* verifyAuthToken(fallback_token) when a fallback_token is supplied.
VerificationFails(r) ==
    /\ ~PrivyAccepts(r.privy_token)
    /\ (Falsy(r.fallback_token) \/ ~PrivyAccepts(r.fallback_token))
VerifiedClaims(r) ==
    IF PrivyAccepts(r.privy_token) THEN verifyAuthToken(r.privy_token)
    ELSE verifyAuthToken(r.fallback_token)
\* The token stored with the code: the one whose verification succeeded.
TokenUsedPrimaryOnly(r) == r.privy_token
TokenUsed(r) ==
    IF PrivyAccepts(r.privy_token) THEN r.privy_token ELSE r.fallback_token

validateClientAndRedirectUri(client_id, redirect_uri) ==
    /\ client_id \in DOMAIN registeredClients
    /\ redirect_uri \in registeredClients[client_id].redirectUris

\* The request-level validation of /authorize/complete: the error response,
\* or Absent when the request passes.
AuthorizeRejectionNoPkceCheck(r) ==
    IF Falsy(r.state) \/ Falsy(r.privy_token)
        THEN OAuthError(400, "invalid_request", "Missing required parameter: state or privy_token")
    ELSE IF VerificationFails(r)
        THEN OAuthError(401, "invalid_token", "Privy token verification failed")
    ELSE IF Falsy(r.client_id) \/ Falsy(r.redirect_uri)
        THEN OAuthError(400, "invalid_request", "Missing required parameter: client_id or redirect_uri")
    ELSE IF ~validateClientAndRedirectUri(r.client_id, r.redirect_uri)
        THEN OAuthError(400, "invalid_client", "Invalid client_id or redirect_uri")
    ELSE NoError
AuthorizeRejection(r) ==
    IF Falsy(r.state) \/ Falsy(r.privy_token)
        THEN OAuthError(400, "invalid_request", "Missing required parameter: state or privy_token")
    ELSE IF VerificationFails(r)
        THEN OAuthError(401, "invalid_token", "Privy token verification failed")
    ELSE IF Falsy(r.client_id) \/ Falsy(r.redirect_uri)
        THEN OAuthError(400, "invalid_request", "Missing required parameter: client_id or redirect_uri")
    ELSE IF ~validateClientAndRedirectUri(r.client_id, r.redirect_uri)
        THEN OAuthError(400, "invalid_client", "Invalid client_id or redirect_uri")
    ELSE IF Falsy(r.code_challenge)
        THEN OAuthError(400, "invalid_request", "Missing required parameter: code_challenge")
    ELSE IF r.code_challenge_method # "S256"
        THEN OAuthError(400, "invalid_request", "Only S256 code_challenge_method is supported")
    ELSE NoError

\* storeAuthorizationCode({...}): the record stored under a new random code
NewAuthorizationCode(r, code, t) ==
    [code |-> code,
     clientId |-> r.client_id,
     privyUserId |-> VerifiedClaims(r).userId,
     privyToken |-> TokenUsed(r),
     scopes |-> FinalScopes(r.scope),
     codeChallenge |-> r.code_challenge,
     codeChallengeMethod |-> r.code_challenge_method,
     redirectUri |-> r.redirect_uri,
     expiresAt |-> t + CodeTtl,
     used |-> FALSE]

\* the handler of POST /authorize/complete
AuthorizeCompleteHandler(r) ==
    /\ last = Idle
    /\ IF AuthorizeRejection(r) # NoError
       THEN /\ last' = [op |-> "authorize", req |-> r, res |-> AuthorizeRejection(r)]
            /\ UNCHANGED <<authorizationCodes, nextCode, issued, redeemed, attempts>>
       ELSE LET code == CodeValue(nextCode)
                rec == NewAuthorizationCode(r, code, now) IN
            /\ nextCode <= MaxCodes
            /\ authorizationCodes' = MapSet(authorizationCodes, code, rec)
            /\ nextCode' = nextCode + 1
            /\ issued' = MapSet(issued, code, rec)
            /\ redeemed' = MapSet(redeemed, code, 0)
            /\ attempts' = MapSet(attempts, code, 0)
            /\ last' = [op |-> "authorize", req |-> r,
                        res |-> [status |-> 200,
                                 body |-> [code |-> code, redirect_uri |-> r.redirect_uri,
                                           state |-> r.state]]]
    /\ UNCHANGED <<now, tokens, refreshTokens, nextRefresh, pending, lineage, minted>>

\* POST /authorize/complete sent by a caller other than the authorize page
CompleteAuthorization(r) ==
    /\ AuthorizeCompleteHandler(r)
    /\ UNCHANGED browser


\* ------------------------------------------------------------ storage.ts
getAuthorizationCode(code) ==
    IF code \in DOMAIN authorizationCodes THEN authorizationCodes[code] ELSE Absent
deleteAuthorizationCode(codes, code) == MapDelete(codes, code)
getRefreshToken(token) ==
    IF token \in DOMAIN refreshTokens THEN refreshTokens[token] ELSE Absent
deleteRefreshToken(rts, token) == MapDelete(rts, token)
storeRefreshToken(rts, token, data) == MapSet(rts, token, data)
storeToken(toks, accessToken, data) == MapSet(toks, accessToken, data)
getToken(accessToken) ==
    IF accessToken \in DOMAIN tokens THEN tokens[accessToken] ELSE Absent

\* ------------------------------------------------------------- POST /token
\* issueAccessToken({privyUserId, privyToken, scopes, clientId, audience})
issueAccessToken(privyUserId, privyToken, scopes, clientId, audience, t) ==
    [accessToken |-> JwtSign([sub |-> privyUserId, scope |-> JoinWords(scopes),
                              aud |-> audience, client_id |-> clientId], t),
     privyToken |-> privyToken,
     expiresIn |-> JWT_EXPIRES_IN_S]

\* const audience = resource || config.server.baseUrl
AudienceAlwaysBase(resource) == BaseUrl
Audience(resource) == IF Falsy(resource) THEN BaseUrl ELSE resource

\* the checks of handleAuthorizationCodeGrant, in the order of the code
CodeHasExpiredNever(authCode, t) == FALSE
CodeHasExpiredAlways(authCode, t) == TRUE
CodeHasExpired(authCode, t) == authCode.expiresAt < t

ClientIdMatchesAlways(authCode, client_id) == TRUE
ClientIdMatches(authCode, client_id) == authCode.clientId = client_id

RedirectUriMatchesAlways(authCode, redirect_uri) == TRUE
RedirectUriMatches(authCode, redirect_uri) ==
    Falsy(redirect_uri) \/ authCode.redirectUri = redirect_uri

PkceCheckPassesAlways(authCode, code_verifier) == TRUE
PkceCheckPasses(authCode, code_verifier) ==
    validatePKCE(code_verifier, authCode.codeChallenge)

\* deleteAuthorizationCode(code): single use only
CodesAfterRedemptionKept(codes, code) == codes
CodesAfterRedemption(codes, code) == deleteAuthorizationCode(codes, code)

\* the TokenData stored with the access token minted from a code
CodeTokenDataShortRecord(authCode, client_id, issuedTok, t) ==
    [clientId |-> client_id,
     privyUserId |-> authCode.privyUserId,
     privyToken |-> issuedTok.privyToken,
     scopes |-> authCode.scopes,
     expiresAt |-> t + CodeTtl]
CodeTokenData(authCode, client_id, issuedTok, t) ==
    [clientId |-> client_id,
     privyUserId |-> authCode.privyUserId,
     privyToken |-> issuedTok.privyToken,
     scopes |-> authCode.scopes,
     expiresAt |-> t + issuedTok.expiresIn * TicksPerSecond]

\* the RefreshTokenData stored on redemption of a code
CodeRefreshDataOneHour(authCode, client_id, t) ==
    [clientId |-> client_id,
     privyUserId |-> authCode.privyUserId,
     privyToken |-> authCode.privyToken,
     scopes |-> authCode.scopes,
     expiresAt |-> t + AccessRecordTtl]
CodeRefreshData(authCode, client_id, t) ==
    [clientId |-> client_id,
     privyUserId |-> authCode.privyUserId,
     privyToken |-> authCode.privyToken,
     scopes |-> authCode.scopes,
     expiresAt |-> t + RefreshTokenTtl]

TokenResponse(accessToken, refreshToken, expiresIn, scopes) ==
    [status |-> 200,
     body |-> [access_token |-> accessToken, refresh_token |-> refreshToken,
               token_type |-> "Bearer", expires_in |-> expiresIn,
               scope |-> JoinWords(scopes)]]

\* history: whether r presents a code that was issued, with the right client,
\* redirect URI and verifier, before the code's expiry
ValidRedemption(r) ==
    /\ r.grant_type = "authorization_code"
    /\ ~Falsy(r.client_id) /\ ~Falsy(r.code) /\ ~Falsy(r.code_verifier)
    /\ r.code \in DOMAIN issued
    /\ ~(issued[r.code].expiresAt < now)
    /\ issued[r.code].clientId = r.client_id
    /\ (Falsy(r.redirect_uri) \/ issued[r.code].redirectUri = r.redirect_uri)
    /\ validatePKCE(r.code_verifier, issued[r.code].codeChallenge)
\* history: whether r presents a refresh token that was issued, with the
\* client of the flow it belongs to
ValidRefresh(r) ==
    /\ r.grant_type = "refresh_token"
    /\ ~Falsy(r.client_id) /\ ~Falsy(r.refresh_token)
    /\ r.refresh_token \in DOMAIN lineage
    /\ issued[lineage[r.refresh_token]].clientId = r.client_id
Presented(r) == IF r.grant_type = "authorization_code" THEN r.code ELSE r.refresh_token
AttemptsAfter(r) ==
    IF ValidRedemption(r) \/ ValidRefresh(r)
    THEN [k \in DOMAIN attempts \cup {Presented(r)} |->
            IF k = Presented(r)
            THEN (IF k \notin DOMAIN attempts THEN 1
                  ELSE IF attempts[k] < 2 THEN attempts[k] + 1 ELSE attempts[k])
            ELSE attempts[k]]
    ELSE attempts

TokenFails(r, res) ==
    /\ last' = [op |-> "token", req |-> r, res |-> res]
    /\ UNCHANGED <<tokens, nextRefresh, lineage, minted, redeemed>>

handleAuthorizationCodeGrant(r) ==
    LET authCode == getAuthorizationCode(r.code) IN
    /\ IF Falsy(r.code) \/ Falsy(r.code_verifier) THEN
            /\ TokenFails(r, OAuthError(400, "invalid_request",
                    "Missing required parameters: code and code_verifier"))
            /\ UNCHANGED <<authorizationCodes, refreshTokens>>
       ELSE IF r.code \notin DOMAIN authorizationCodes THEN
            /\ TokenFails(r, OAuthError(400, "invalid_grant",
                    "Invalid or expired authorization code"))
            /\ UNCHANGED <<authorizationCodes, refreshTokens>>
       ELSE IF authCode.used THEN
            /\ TokenFails(r, OAuthError(400, "invalid_grant",
                    "Authorization code has already been used"))
            /\ UNCHANGED <<authorizationCodes, refreshTokens>>
       ELSE IF CodeHasExpired(authCode, now) THEN
            /\ authorizationCodes' = deleteAuthorizationCode(authorizationCodes, r.code)
            /\ TokenFails(r, OAuthError(400, "invalid_grant",
                    "Authorization code has expired"))
            /\ UNCHANGED refreshTokens
       ELSE IF ~ClientIdMatches(authCode, r.client_id) THEN
            /\ TokenFails(r, OAuthError(400, "invalid_grant", "Invalid client_id"))
            /\ UNCHANGED <<authorizationCodes, refreshTokens>>
       ELSE IF ~RedirectUriMatches(authCode, r.redirect_uri) THEN
            /\ TokenFails(r, OAuthError(400, "invalid_grant", "redirect_uri does not match"))
            /\ UNCHANGED <<authorizationCodes, refreshTokens>>
       ELSE IF ~PkceCheckPasses(authCode, r.code_verifier) THEN
            /\ TokenFails(r, OAuthError(400, "invalid_grant",
                    "Invalid code_verifier (PKCE validation failed)"))
            /\ UNCHANGED <<authorizationCodes, refreshTokens>>
       ELSE
            LET issuedTok == issueAccessToken(authCode.privyUserId, authCode.privyToken,
                                 authCode.scopes, r.client_id, Audience(r.resource), now)
                refreshToken == RefreshValue(nextRefresh) IN
            /\ nextRefresh <= MaxRefresh
            /\ authorizationCodes' = CodesAfterRedemption(authorizationCodes, r.code)
            /\ tokens' = storeToken(tokens, issuedTok.accessToken,
                                    CodeTokenData(authCode, r.client_id, issuedTok, now))
            /\ refreshTokens' = storeRefreshToken(refreshTokens, refreshToken,
                                    CodeRefreshData(authCode, r.client_id, now))
            /\ nextRefresh' = nextRefresh + 1
            /\ lineage' = MapSet(lineage, refreshToken, r.code)
            /\ minted' = minted \cup {<<issuedTok.accessToken, r.code>>}
            /\ redeemed' = MapSet([redeemed EXCEPT ![r.code] = @ + 1], refreshToken, 0)
            /\ last' = [op |-> "token", req |-> r,
                        res |-> TokenResponse(issuedTok.accessToken, refreshToken,
                                              issuedTok.expiresIn, authCode.scopes)]


\* the checks and the rotation of handleRefreshTokenGrant
RefreshHasExpired(stored, t) == stored.expiresAt < t

\* deleteRefreshToken(refresh_token): rotation
RefreshAfterRotationKept(rts, token) == rts
RefreshAfterRotation(rts, token) == deleteRefreshToken(rts, token)

\* the RefreshTokenData stored for the rotated refresh token
RotatedRefreshDataOtherToken(stored, t) ==
    [clientId |-> stored.clientId,
     privyUserId |-> stored.privyUserId,
     privyToken |-> "privy-tok-refreshed",
     scopes |-> stored.scopes,
     expiresAt |-> t + RefreshTokenTtl]
RotatedRefreshData(stored, t) ==
    [clientId |-> stored.clientId,
     privyUserId |-> stored.privyUserId,
     privyToken |-> stored.privyToken,
     scopes |-> stored.scopes,
     expiresAt |-> t + RefreshTokenTtl]

\* the TokenData stored with the access token minted by a refresh
RefreshTokenData(stored, issuedTok, t) ==
    [clientId |-> stored.clientId,
     privyUserId |-> stored.privyUserId,
     privyToken |-> issuedTok.privyToken,
     scopes |-> stored.scopes,
     expiresAt |-> t + issuedTok.expiresIn * TicksPerSecond]

handleRefreshTokenGrant(r) ==
    LET storedRefreshToken == getRefreshToken(r.refresh_token) IN
    /\ UNCHANGED authorizationCodes
    /\ IF Falsy(r.refresh_token) THEN
            /\ TokenFails(r, OAuthError(400, "invalid_request",
                    "Missing required parameter: refresh_token"))
            /\ UNCHANGED refreshTokens
       ELSE IF r.refresh_token \notin DOMAIN refreshTokens THEN
            /\ TokenFails(r, OAuthError(400, "invalid_grant", "Invalid refresh_token"))
            /\ UNCHANGED refreshTokens
       ELSE IF storedRefreshToken.clientId # r.client_id THEN
            /\ TokenFails(r, OAuthError(400, "invalid_grant",
                    "Client mismatch for refresh_token"))
            /\ UNCHANGED refreshTokens
       ELSE IF RefreshHasExpired(storedRefreshToken, now) THEN
            /\ refreshTokens' = deleteRefreshToken(refreshTokens, r.refresh_token)
            /\ last' = [op |-> "token", req |-> r,
                        res |-> OAuthError(400, "invalid_grant", "refresh_token has expired")]
            /\ UNCHANGED <<tokens, nextRefresh, lineage, minted, redeemed>>
       ELSE
            LET newRefreshToken == RefreshValue(nextRefresh)
                issuedTok == issueAccessToken(storedRefreshToken.privyUserId,
                                 storedRefreshToken.privyToken, storedRefreshToken.scopes,
                                 storedRefreshToken.clientId, Audience(r.resource), now) IN
            /\ nextRefresh <= MaxRefresh
            /\ refreshTokens' = storeRefreshToken(
                                    RefreshAfterRotation(refreshTokens, r.refresh_token),
                                    newRefreshToken, RotatedRefreshData(storedRefreshToken, now))
            /\ tokens' = storeToken(tokens, issuedTok.accessToken,
                                    RefreshTokenData(storedRefreshToken, issuedTok, now))
            /\ nextRefresh' = nextRefresh + 1
            /\ lineage' = MapSet(lineage, newRefreshToken, lineage[r.refresh_token])
            /\ minted' = minted \cup {<<issuedTok.accessToken, lineage[r.refresh_token]>>}
            /\ redeemed' = MapSet([redeemed EXCEPT ![r.refresh_token] = @ + 1],
                                  newRefreshToken, 0)
            /\ last' = [op |-> "token", req |-> r,
                        res |-> TokenResponse(issuedTok.accessToken, newRefreshToken,
                                              issuedTok.expiresIn, storedRefreshToken.scopes)]

\* tokenRouter.post('/'): the dispatch on client_id and grant_type
TokenEndpointNoClientCheck(r) ==
    IF r.grant_type = "authorization_code" THEN handleAuthorizationCodeGrant(r)
    ELSE IF r.grant_type = "refresh_token" THEN handleRefreshTokenGrant(r)
    ELSE
        /\ TokenFails(r, OAuthError(400, "unsupported_grant_type",
                "Unsupported grant_type: " \o r.grant_type))
        /\ UNCHANGED <<authorizationCodes, refreshTokens>>
TokenEndpoint(r) ==
    IF Falsy(r.client_id) THEN
        /\ TokenFails(r, OAuthError(400, "invalid_request",
                "Missing required parameter: client_id"))
        /\ UNCHANGED <<authorizationCodes, refreshTokens>>
    ELSE IF r.grant_type = "authorization_code" THEN handleAuthorizationCodeGrant(r)
    ELSE IF r.grant_type = "refresh_token" THEN handleRefreshTokenGrant(r)
    ELSE
        /\ TokenFails(r, OAuthError(400, "unsupported_grant_type",
                "Unsupported grant_type: " \o r.grant_type))
        /\ UNCHANGED <<authorizationCodes, refreshTokens>>

\* a POST /token request handled as it arrives
PostToken(r) ==
    /\ last = Idle
    /\ TokenEndpoint(r)
    /\ UNCHANGED <<now, nextCode, pending, issued, attempts, browser>>

\* ---------------------------------------------- requests in flight together
\* A request is in flight from its arrival until its handler runs. Both grant
\* handlers are async functions without an await, so each runs to completion
\* once started; which of the requests in flight runs first is not determined.
\* A pending entry is marked raced once another request presenting the same
\* code or refresh token is in flight with it.
Receive(r) ==
    LET clash == {q \in pending : Presented(q.req) = Presented(r)}
        id == CHOOSE i \in 1..MaxPending : \A q \in pending : q.id # i IN
    /\ last = Idle
    /\ Cardinality(pending) < MaxPending
    /\ pending' = {IF q \in clash THEN [q EXCEPT !.raced = TRUE] ELSE q : q \in pending}
                   \cup {[id |-> id, req |-> r, raced |-> clash # {}]}
    /\ UNCHANGED <<now, stores, nextCode, nextRefresh, last, ghosts, browser>>

HandlePending(p) ==
    /\ last = Idle
    /\ TokenEndpoint(p.req)
    /\ pending' = pending \ {p}
    /\ attempts' = IF p.raced THEN AttemptsAfter(p.req) ELSE attempts
    /\ UNCHANGED <<now, nextCode, issued, browser>>


\* ------------------------------------- a failure inside a grant handler
\* jwt.sign throws inside issueAccessToken.  The route handler returns the
\* grant handler's promise without awaiting it, so its try/catch does not
\* see the rejection: the route handler's own promise is rejected.
\* Whether the handler of r gets as far as issueAccessToken:
ReachesIssueAccessToken(r) ==
    /\ ~Falsy(r.client_id)
    /\ IF r.grant_type = "authorization_code" THEN
            /\ ~Falsy(r.code) /\ ~Falsy(r.code_verifier)
            /\ r.code \in DOMAIN authorizationCodes
            /\ ~authorizationCodes[r.code].used
            /\ ~CodeHasExpired(authorizationCodes[r.code], now)
            /\ ClientIdMatches(authorizationCodes[r.code], r.client_id)
            /\ RedirectUriMatches(authorizationCodes[r.code], r.redirect_uri)
            /\ PkceCheckPasses(authorizationCodes[r.code], r.code_verifier)
       ELSE /\ r.grant_type = "refresh_token"
            /\ ~Falsy(r.refresh_token)
            /\ r.refresh_token \in DOMAIN refreshTokens
            /\ refreshTokens[r.refresh_token].clientId = r.client_id
            /\ ~RefreshHasExpired(refreshTokens[r.refresh_token], now)

\* the code was deleted before issueAccessToken was called
CodesWhenSigningThrowsRolledBack(codes, code) == codes
CodesWhenSigningThrows(codes, code) == deleteAuthorizationCode(codes, code)

\* What becomes of a rejected route handler is the framework's business:
\* the request is left without a response, or the framework's own error
\* handler answers it.
EscapedOutcomes == {"unanswered", "framework_500"}
FrameworkError == [status |-> 500, body |-> [html |-> "Internal Server Error"]]

HandlePendingSigningThrows(p, outcome) ==
    LET r == p.req
        newRefreshToken == RefreshValue(nextRefresh) IN
    /\ last = Idle
    /\ ~p.escaped
    /\ ReachesIssueAccessToken(r)
    /\ IF r.grant_type = "authorization_code" THEN
            /\ authorizationCodes' = CodesWhenSigningThrows(authorizationCodes, r.code)
            /\ UNCHANGED <<refreshTokens, nextRefresh, lineage, redeemed>>
       ELSE /\ nextRefresh <= MaxRefresh
            /\ refreshTokens' = storeRefreshToken(
                                    RefreshAfterRotation(refreshTokens, r.refresh_token),
                                    newRefreshToken,
                                    RotatedRefreshData(refreshTokens[r.refresh_token], now))
            /\ nextRefresh' = nextRefresh + 1
            /\ lineage' = MapSet(lineage, newRefreshToken, lineage[r.refresh_token])
            /\ redeemed' = MapSet(redeemed, newRefreshToken, 0)
            /\ UNCHANGED authorizationCodes
    /\ IF outcome = "unanswered"
       THEN /\ pending' = (pending \ {p}) \cup {[p EXCEPT !.escaped = TRUE]}
            /\ UNCHANGED last
       ELSE /\ pending' = pending \ {p}
            /\ last' = [op |-> "token", req |-> r, res |-> FrameworkError]
    /\ UNCHANGED <<now, tokens, nextCode, issued, minted, attempts, browser>>

\* a request arrives while the server can still serve every request in flight
FaultReceive(r) ==
    LET id == CHOOSE i \in 1..MaxPending : \A q \in pending : q.id # i IN
    /\ last = Idle
    /\ Cardinality(pending) < MaxPending
    /\ nextRefresh + Cardinality({q \in pending : ~q.escaped}) <= MaxRefresh
    /\ pending' = pending \cup {[id |-> id, req |-> r, raced |-> FALSE, escaped |-> FALSE]}
    /\ UNCHANGED <<now, stores, nextCode, nextRefresh, last, ghosts, browser>>

\* the handler of a request in flight runs without a failure
FaultHandle(p) ==
    /\ ~p.escaped
    /\ HandlePending(p)

\* the caller's connection is gone before the response is written
ConnectionDropped ==
    /\ last # Idle
    /\ last.op = "token"
    /\ last' = Idle
    /\ UNCHANGED <<now, stores, nextCode, nextRefresh, pending, ghosts, browser>>

\* ------------------------------------------- middleware/auth.ts validateToken
\* "challenge" (401), "insufficient_scope" (403) or "next"
TokenScopes(decoded) == IF decoded.scope = <<>> THEN <<>> ELSE SplitWords(decoded.scope)
validateTokenNoScopeCheck(authorization, requiredScopes, t) ==
    IF authorization.scheme # "Bearer " THEN "challenge"
    ELSE IF ~JwtVerifies(authorization.token, t, BaseUrl) THEN "challenge"
    ELSE "next"
validateToken(authorization, requiredScopes, t) ==
    IF authorization.scheme # "Bearer " THEN "challenge"
    ELSE IF ~JwtVerifies(authorization.token, t, BaseUrl) THEN "challenge"
    ELSE IF requiredScopes # {} /\ ~(requiredScopes \subseteq Range(TokenScopes(authorization.token)))
        THEN "insufficient_scope"
    ELSE "next"

\* --------------------------------------------- POST /token/privy/access-token
BridgeBody(tokenData) ==
    [privyAccessToken |-> tokenData.privyToken,
     expiresAt |-> tokenData.expiresAt,
     issuedAt |-> "null",
     userId |-> tokenData.privyUserId,
     scope |-> tokenData.scopes]

PrivyAccessTokenResponseUnauthorized(r) ==
    LET outcome == validateToken(r.authorization, {BridgeScope}, now) IN
    IF outcome = "challenge"
        THEN OAuthError(401, "invalid_token", "Bearer token missing or invalid")
    ELSE IF outcome = "insufficient_scope"
        THEN OAuthError(403, "insufficient_scope", "Required scopes: privy:token:exchange")
    ELSE IF r.authorization.token \notin DOMAIN tokens
        THEN [status |-> 401, body |-> [error |-> "unauthorized"]]
    ELSE [status |-> 200, body |-> BridgeBody(getToken(r.authorization.token))]
PrivyAccessTokenResponse(r) ==
    LET outcome == validateToken(r.authorization, {BridgeScope}, now) IN
    IF outcome = "challenge"
        THEN OAuthError(401, "invalid_token", "Bearer token missing or invalid")
    ELSE IF outcome = "insufficient_scope"
        THEN OAuthError(403, "insufficient_scope", "Required scopes: privy:token:exchange")
    ELSE IF r.authorization.token \notin DOMAIN tokens
        THEN [status |-> 404, body |-> [error |-> "token_not_found"]]
    ELSE [status |-> 200, body |-> BridgeBody(getToken(r.authorization.token))]

PostPrivyAccessToken(r) ==
    /\ last = Idle
    /\ last' = [op |-> "bridge", req |-> r, res |-> PrivyAccessTokenResponse(r)]
    /\ UNCHANGED <<now, authorizationCodes, tokens, refreshTokens, nextCode,
                   nextRefresh, pending, issued, lineage, minted, redeemed, attempts,
                   browser>>

\* ------------------------------------------------------------- POST /mcp
\* mcpRouter.post('/', validateToken(['read']), ...)
McpResponse(r) ==
    LET outcome == validateToken(r.authorization, {"read"}, now) IN
    IF outcome = "challenge"
        THEN OAuthError(401, "invalid_token", "Bearer token missing or invalid")
    ELSE IF outcome = "insufficient_scope"
        THEN OAuthError(403, "insufficient_scope", "Required scopes: read")
    ELSE [status |-> 200,
          body |-> [jsonrpc |-> "2.0",
                    auth |-> [userId |-> r.authorization.token.sub,
                              scopes |-> TokenScopes(r.authorization.token)]]]

PostMcp(r) ==
    /\ last = Idle
    /\ last' = [op |-> "mcp", req |-> r, res |-> McpResponse(r)]
    /\ UNCHANGED <<now, stores, nextCode, nextRefresh, pending, ghosts, browser>>

\* ---------------------------------------------------- POST /token/introspect
\* jwt.verify(token, publicKey, {algorithms, issuer}): no audience is given
JwtVerifiesAnyIssuer(token, t) ==
    /\ token.sig = "key-1"
    /\ ~((t \div TicksPerSecond) >= token.exp)
JwtVerifiesIssuer(token, t) ==
    /\ token.sig = "key-1"
    /\ ~((t \div TicksPerSecond) >= token.exp)
    /\ token.iss = Issuer

IntrospectResponseNeedsRecord(r) ==
    IF ~r.supplied THEN [status |-> 400, body |-> [active |-> FALSE]]
    ELSE IF JwtVerifiesIssuer(r.token, now) /\ r.token \in DOMAIN tokens
        THEN [status |-> 200,
              body |-> [active |-> TRUE, sub |-> r.token.sub, scope |-> r.token.scope,
                        client_id |-> r.token.client_id, exp |-> r.token.exp,
                        iat |-> r.token.iat, iss |-> r.token.iss, aud |-> r.token.aud]]
    ELSE [status |-> 200, body |-> [active |-> FALSE]]
IntrospectResponse(r) ==
    IF ~r.supplied THEN [status |-> 400, body |-> [active |-> FALSE]]
    ELSE IF JwtVerifiesIssuer(r.token, now)
        THEN [status |-> 200,
              body |-> [active |-> TRUE, sub |-> r.token.sub, scope |-> r.token.scope,
                        client_id |-> r.token.client_id, exp |-> r.token.exp,
                        iat |-> r.token.iat, iss |-> r.token.iss, aud |-> r.token.aud]]
    ELSE [status |-> 200, body |-> [active |-> FALSE]]

PostIntrospect(r) ==
    /\ last = Idle
    /\ last' = [op |-> "introspect", req |-> r, res |-> IntrospectResponse(r)]
    /\ UNCHANGED <<now, stores, nextCode, nextRefresh, pending, ghosts, browser>>

\* --------------------------------------------------------- process restart
\* The three Maps live in the process; the signing keys come from the
\* environment and are the same after a restart.
Restart ==
    /\ last = Idle
    /\ authorizationCodes' = <<>>
    /\ tokens' = <<>>
    /\ refreshTokens' = <<>>
    /\ stores' # stores
    /\ UNCHANGED <<now, nextCode, nextRefresh, pending, last, ghosts, browser>>

\* ------------------------------------------------ storage.ts cleanup interval
UnexpiredNothing(m, t) == [k \in {} |-> m[k]]
Unexpired(m, t) == [k \in {x \in DOMAIN m : ~(m[x].expiresAt < t)} |-> m[k]]
cleanup ==
    /\ last = Idle
    /\ authorizationCodes' = Unexpired(authorizationCodes, now)
    /\ tokens' = Unexpired(tokens, now)
    /\ refreshTokens' = Unexpired(refreshTokens, now)
    /\ stores' # stores
    /\ UNCHANGED <<now, nextCode, nextRefresh, pending, last,
                   issued, lineage, minted, redeemed, attempts, browser>>

\* ------------------------------------------------------------------- clock
\* The instants at which requests arrive: server start, and the first tick
\* at which a code issued at the start has expired.
ClockValues == {0, CodeTtl + 1}
Advance(t) ==
    /\ last = Idle
    /\ t > now
    /\ now' = t
    /\ UNCHANGED <<authorizationCodes, tokens, refreshTokens, nextCode, nextRefresh,
                   pending, last, issued, lineage, minted, redeemed, attempts, browser>>

\* the response has been sent; the exchange is over
Close ==
    /\ last # Idle
    /\ last' = Idle
    /\ UNCHANGED <<now, authorizationCodes, tokens, refreshTokens, nextCode,
                   nextRefresh, pending, issued, lineage, minted, redeemed, attempts,
                   browser>>

\* ---------------------------------------------------------------- requests
Verifiers == {"verifier-1", "verifier-2"}
OtherResource == "https://other.example/api"
OtherClient == "different-client"
UnknownClient == "unknown-client-xyz"
InvalidPrivyToken == "invalid-privy-token-xyz"

AuthorizeRequest(client, uri, scope, challenge, method, tok, fallback) ==
    [client_id |-> client, redirect_uri |-> uri, scope |-> scope, state |-> "state-1",
     code_challenge |-> challenge, code_challenge_method |-> method,
     privy_token |-> tok, fallback_token |-> fallback]

GoodChallenge == CodeChallengeOf("verifier-1")
PaddedChallenge == Base64UrlPadded(Sha256("verifier-1"))

WellFormedAuthorizeRequests ==
    {AuthorizeRequest(STATIC_CLIENT_ID, UriA, <<>>, GoodChallenge, "S256",
                      "privy-tok-A", Absent),
     AuthorizeRequest(STATIC_CLIENT_ID, UriA, <<"read", BridgeScope>>, GoodChallenge, "S256",
                      "privy-tok-B", Absent),
     AuthorizeRequest(STATIC_CLIENT_ID, UriA, <<"read", "invalid-scope-xyz", "write">>,
                      GoodChallenge, "S256", "privy-tok-C", Absent),
     AuthorizeRequest(STATIC_CLIENT_ID, UriA, <<>>, GoodChallenge, "S256",
                      InvalidPrivyToken, "privy-tok-B"),
     AuthorizeRequest(STATIC_CLIENT_ID, UriA, <<>>, PaddedChallenge, "S256",
                      "privy-tok-A", Absent)}

\* requests that deviate from the first well-formed one
DeviantAuthorizeRequests ==
    LET Dev(cl, uri, ch, m, tok, fb) ==
            AuthorizeRequest(cl, uri, <<"read">>, ch, m, tok, fb) IN
    {Dev(UnknownClient, UriA, GoodChallenge, "S256", "privy-tok-A", Absent),
     Dev(Absent, UriA, GoodChallenge, "S256", "privy-tok-A", Absent),
     Dev(STATIC_CLIENT_ID, UriEvil, GoodChallenge, "S256", "privy-tok-A", Absent),
     Dev(STATIC_CLIENT_ID, UriA, Absent, "S256", "privy-tok-A", Absent),
     Dev(STATIC_CLIENT_ID, UriA, GoodChallenge, "plain", "privy-tok-A", Absent),
     Dev(STATIC_CLIENT_ID, UriA, GoodChallenge, "S256", InvalidPrivyToken, Absent),
     Dev(STATIC_CLIENT_ID, UriA, GoodChallenge, "S256", InvalidPrivyToken, InvalidPrivyToken),
     Dev(STATIC_CLIENT_ID, UriA, GoodChallenge, "S256", Absent, Absent),
     Dev(STATIC_CLIENT_ID, UriEvil, Absent, "plain", "privy-tok-A", Absent)}

AuthorizeRequests == WellFormedAuthorizeRequests \cup DeviantAuthorizeRequests

TokenRequest(grant, client, code, verifier, uri, resource, refresh) ==
    [grant_type |-> grant, client_id |-> client, code |-> code, code_verifier |-> verifier,
     redirect_uri |-> uri, resource |-> resource, refresh_token |-> refresh]

\* per issued code: the matching request, one without redirect_uri, one for
\* another resource, and the requests with one or two parameters wrong
CodeGrantRequests ==
    {TokenRequest("authorization_code", d[1], c, d[2], d[3], d[4], Absent) :
        c \in DOMAIN issued,
        d \in {<<STATIC_CLIENT_ID, "verifier-1", UriA, Absent>>,
               <<STATIC_CLIENT_ID, "verifier-1", Absent, Absent>>,
               <<STATIC_CLIENT_ID, "verifier-1", UriA, OtherResource>>,
               <<STATIC_CLIENT_ID, "verifier-1", UriB, Absent>>,
               <<STATIC_CLIENT_ID, "verifier-2", UriA, Absent>>,
               <<OtherClient, "verifier-1", UriA, Absent>>,
               <<OtherClient, "verifier-2", UriB, Absent>>}}
    \cup
    {TokenRequest("authorization_code", STATIC_CLIENT_ID, UnknownCode, "verifier-1",
                  UriA, Absent, Absent)}

RefreshGrantRequests ==
    {TokenRequest("refresh_token", cl, Absent, Absent, Absent, Absent, rt) :
        cl \in {STATIC_CLIENT_ID, OtherClient},
        rt \in DOMAIN lineage \cup {UnknownRefresh}}

MalformedTokenRequests ==
    {TokenRequest(g, Absent, UnknownCode, "verifier-1", Absent, Absent, UnknownRefresh) :
        g \in {"authorization_code", Absent}}
    \cup
    {TokenRequest(g, STATIC_CLIENT_ID, UnknownCode, "verifier-1", Absent, Absent, Absent) :
        g \in {"client_credentials", Absent}}
    \cup
    {TokenRequest("authorization_code", STATIC_CLIENT_ID, Absent, "verifier-1",
                  Absent, Absent, Absent),
     TokenRequest("authorization_code", STATIC_CLIENT_ID, UnknownCode, Absent,
                  Absent, Absent, Absent),
     TokenRequest("refresh_token", STATIC_CLIENT_ID, Absent, Absent,
                  Absent, Absent, Absent)}

TokenRequests == CodeGrantRequests \cup RefreshGrantRequests \cup MalformedTokenRequests

\* the authorizations that precede them
RaceAuthorizeRequests ==
    {AuthorizeRequest(STATIC_CLIENT_ID, UriA, <<>>, GoodChallenge, "S256",
                      "privy-tok-A", Absent)}

\* the requests that may be in flight together: the matching request for
\* each code and each refresh token issued so far
RaceRequests ==
    {TokenRequest("authorization_code", STATIC_CLIENT_ID, c, "verifier-1", UriA,
                  Absent, Absent) : c \in DOMAIN issued}
    \cup
    {TokenRequest("refresh_token", STATIC_CLIENT_ID, Absent, Absent, Absent, Absent, rt) :
        rt \in DOMAIN lineage}

ForgedToken ==
    [sub |-> "did:privy:user-1", scope |-> <<"read", BridgeScope>>, aud |-> BaseUrl,
     client_id |-> STATIC_CLIENT_ID, iss |-> Issuer, iat |-> 0, exp |-> JWT_EXPIRES_IN_S,
     sig |-> "forged"]

BridgeRequests ==
    {[authorization |-> [scheme |-> "Bearer ", token |-> m[1]]] : m \in minted}
    \cup {[authorization |-> [scheme |-> "Bearer ", token |-> ForgedToken]],
          [authorization |-> [scheme |-> Absent, token |-> ForgedToken]]}

\* ------------------------------------------- GET /authorize and its page
\* GET /authorize: all required parameters present, the method S256, the
\* client and redirect URI registered; a request that fails a check is
\* answered with an error response, any other with the authorize page.
GetAuthorizeRejectionNoClientCheck(q) ==
    IF q.response_type # "code" \/ Falsy(q.client_id) \/ Falsy(q.redirect_uri)
            \/ Falsy(q.state) \/ Falsy(q.code_challenge) \/ Falsy(q.code_challenge_method)
        THEN OAuthError(400, "invalid_request", "Missing required parameters")
    ELSE IF q.code_challenge_method # "S256"
        THEN OAuthError(400, "invalid_request", "Only S256 code_challenge_method is supported")
    ELSE NoError
GetAuthorizeRejection(q) ==
    IF q.response_type # "code" \/ Falsy(q.client_id) \/ Falsy(q.redirect_uri)
            \/ Falsy(q.state) \/ Falsy(q.code_challenge) \/ Falsy(q.code_challenge_method)
        THEN OAuthError(400, "invalid_request", "Missing required parameters")
    ELSE IF q.code_challenge_method # "S256"
        THEN OAuthError(400, "invalid_request", "Only S256 code_challenge_method is supported")
    ELSE IF ~validateClientAndRedirectUri(q.client_id, q.redirect_uri)
        THEN OAuthError(400, "invalid_client", "Invalid client_id or redirect_uri")
    ELSE NoError

\* AuthorizePage.tsx, useEffect: the error the page sets for its own URL
PageLoadError(q) ==
    IF Falsy(q.client_id) \/ Falsy(q.redirect_uri) \/ Falsy(q.code_challenge)
            \/ Falsy(q.code_challenge_method)
        THEN "Invalid authorization request: missing required parameters"
    ELSE IF q.code_challenge_method # "S256"
        THEN "Invalid code_challenge_method: only S256 is supported"
    ELSE Absent

\* AuthorizePage.tsx, handleAutomaticAuthorization: the body it posts
PageRequest(q, privyToken) ==
    [client_id |-> q.client_id, redirect_uri |-> q.redirect_uri,
     scope |-> IF q.scope = <<>> THEN <<"read">> ELSE q.scope,
     state |-> q.state, code_challenge |-> q.code_challenge,
     code_challenge_method |-> q.code_challenge_method,
     privy_token |-> privyToken, fallback_token |-> Absent]

GetAuthorize(q) ==
    /\ last = Idle
    /\ last' = [op |-> "get_authorize", req |-> q,
                res |-> IF GetAuthorizeRejection(q) # NoError THEN GetAuthorizeRejection(q)
                        ELSE [status |-> 200, body |-> [page |-> "authorize"]]]
    /\ browser' = IF GetAuthorizeRejection(q) # NoError THEN browser
                  ELSE [view |-> "authorize", query |-> q, error |-> PageLoadError(q)]
    /\ UNCHANGED <<now, stores, nextCode, nextRefresh, pending, ghosts>>

\* the page, authenticated, posts the authorization and follows the answer:
\* window.location.href = data.redirect_uri, or setError(error_description)
PageAuthorize(privyToken) ==
    /\ browser.view = "authorize"
    /\ browser.error = Absent
    /\ AuthorizeCompleteHandler(PageRequest(browser.query, privyToken))
    /\ browser' = IF last'.res.status = 200
                  THEN [view |-> "left", query |-> browser.query, kind |-> "code",
                        to |-> last'.res.body.redirect_uri]
                  ELSE [browser EXCEPT !.error = last'.res.body.error_description]

\* handleLogin's catch, or getAccessToken() returning nothing
PageLoginFails ==
    /\ last = Idle
    /\ browser.view = "authorize"
    /\ browser.error = Absent
    /\ browser' = [browser EXCEPT !.error = "Failed to authenticate. Please try again."]
    /\ UNCHANGED <<now, stores, nextCode, nextRefresh, pending, last, ghosts>>

\* the "Return to Application" button of the error view
ReturnToApplication ==
    /\ last = Idle
    /\ browser.view = "authorize"
    /\ browser.error # Absent
    /\ ~Falsy(browser.query.redirect_uri)
    /\ browser' = [view |-> "left", query |-> browser.query, kind |-> "error",
                   to |-> browser.query.redirect_uri]
    /\ UNCHANGED <<now, stores, nextCode, nextRefresh, pending, last, ghosts>>

\* the URLs a user agent may be sent to GET /authorize with
AuthorizeQuery(client, uri, state, challenge, method) ==
    [response_type |-> "code", client_id |-> client, redirect_uri |-> uri,
     scope |-> <<>>, state |-> state, code_challenge |-> challenge,
     code_challenge_method |-> method]
PageQueries ==
    {AuthorizeQuery(STATIC_CLIENT_ID, UriA, "state-1", GoodChallenge, "S256"),
     AuthorizeQuery(STATIC_CLIENT_ID, UriB, "state-1", GoodChallenge, "S256"),
     AuthorizeQuery(STATIC_CLIENT_ID, UriEvil, "state-1", GoodChallenge, "S256"),
     AuthorizeQuery(UnknownClient, UriA, "state-1", GoodChallenge, "S256"),
     AuthorizeQuery(STATIC_CLIENT_ID, UriEvil, "state-1", GoodChallenge, "plain"),
     AuthorizeQuery(STATIC_CLIENT_ID, UriEvil, Absent, Absent, Absent),
     AuthorizeQuery(STATIC_CLIENT_ID, Absent, "state-1", GoodChallenge, "S256")}
\* what getAccessToken() returns to the page
PagePrivyTokens == {"privy-tok-A", "privy-tok-C", InvalidPrivyToken}

\* the requests of a client that uses its tokens at the protected endpoints
\* for as long as they live
ResourceAuthorizeRequests ==
    {AuthorizeRequest(STATIC_CLIENT_ID, UriA, sc, GoodChallenge, "S256", "privy-tok-A", Absent) :
        sc \in {<<>>, <<"write">>}}

ResourceTokenRequests ==
    {TokenRequest("authorization_code", STATIC_CLIENT_ID, c, "verifier-1", UriA, res, Absent) :
        c \in DOMAIN issued, res \in {Absent, OtherResource}}
    \cup
    {TokenRequest("refresh_token", STATIC_CLIENT_ID, Absent, Absent, Absent, Absent, rt) :
        rt \in DOMAIN lineage}

\* a token signed with the server's key that names another issuer
OtherIssuerToken ==
    [sub |-> "did:privy:user-1", scope |-> <<"read", BridgeScope>>, aud |-> BaseUrl,
     client_id |-> STATIC_CLIENT_ID, iss |-> "https://other-issuer.example", iat |-> 0,
     exp |-> JWT_EXPIRES_IN_S, sig |-> "key-1"]

PresentedTokens == {m[1] : m \in minted} \cup {ForgedToken, OtherIssuerToken}

ProtectedRequests ==
    {[authorization |-> [scheme |-> "Bearer ", token |-> tok]] : tok \in PresentedTokens}
    \cup {[authorization |-> [scheme |-> sch, token |-> ForgedToken]] : sch \in {Absent, "Basic "}}

IntrospectRequests ==
    {[supplied |-> TRUE, token |-> tok] : tok \in PresentedTokens}
    \cup {[supplied |-> FALSE, token |-> ForgedToken]}

\* the instants at which they arrive: server start, the last tick of the
\* hour after it, and the first tick after that hour
ResourceClockValues == {0, AccessRecordTtl - 1, AccessRecordTtl + 1}

\* the requests of one client that keeps a flow alive while the sweep runs
SweepTokenRequests ==
    {TokenRequest("authorization_code", STATIC_CLIENT_ID, c, "verifier-1", UriA,
                  Absent, Absent) : c \in DOMAIN issued}
    \cup
    {TokenRequest("refresh_token", STATIC_CLIENT_ID, Absent, Absent, Absent, Absent, rt) :
        rt \in DOMAIN lineage}

SweepBridgeRequests ==
    {[authorization |-> [scheme |-> "Bearer ", token |-> m[1]]] : m \in minted}

\* the instants at which something happens: server start, the first tick
\* after the lifetime of a code, the last tick of the first hour, the first
\* tick after that hour, and the first tick after the lifetime of a refresh
\* token
SweepClockValues ==
    {0, CodeTtl + 1, AccessRecordTtl - 1, AccessRecordTtl + 1, RefreshTokenTtl + 1}

\* two instants within the second of the server's start, and the first
\* instant of the next second
LineageClockValues == {0, 1, TicksPerSecond}

\* ------------------------------------------------------------ specification
Next ==
    \/ \E r \in AuthorizeRequests : CompleteAuthorization(r)
    \/ \E r \in TokenRequests : PostToken(r)
    \/ \E r \in BridgeRequests : PostPrivyAccessToken(r)
    \/ cleanup
    \/ \E t \in ClockValues : Advance(t)
    \/ Close

Spec == Init /\ [][Next]_vars

\* The same server with token requests in flight together; the clock stands
\* still, so that a matching request stays a matching request.
RaceNext ==
    \/ \E r \in RaceAuthorizeRequests : CompleteAuthorization(r)
    \/ \E r \in RaceRequests : Receive(r)
    \/ \E p \in pending : HandlePending(p)
    \/ Close

RaceSpec == Init /\ [][RaceNext]_vars

\* The server reached through the user agent: GET /authorize, the authorize
\* page and what the page does with the server's answers.
PageNext ==
    \/ \E q \in PageQueries : GetAuthorize(q)
    \/ \E t \in PagePrivyTokens : PageAuthorize(t)
    \/ PageLoginFails
    \/ ReturnToApplication
    \/ Close

PageSpec == Init /\ [][PageNext]_vars

\* The server with its protected endpoints, over the lifetime of its tokens
\* and across restarts.
ResourceNext ==
    \/ \E r \in ResourceAuthorizeRequests : CompleteAuthorization(r)
    \/ \E r \in ResourceTokenRequests : PostToken(r)
    \/ \E r \in ProtectedRequests : PostMcp(r)
    \/ \E r \in ProtectedRequests : PostPrivyAccessToken(r)
    \/ \E r \in IntrospectRequests : PostIntrospect(r)
    \/ cleanup
    \/ Restart
    \/ \E t \in ResourceClockValues : Advance(t)
    \/ Close

ResourceSpec == Init /\ [][ResourceNext]_vars

\* The token endpoint with requests in flight and a signing key that may
\* fail.  Every handler that is ready to run is eventually run by the event
\* loop, and every response that has been computed is eventually written.
HandleRequest(i) ==
    \E p \in pending :
        /\ p.id = i
        /\ \/ FaultHandle(p)
           \/ \E o \in EscapedOutcomes : HandlePendingSigningThrows(p, o)

FaultNext ==
    \/ \E r \in RaceAuthorizeRequests : CompleteAuthorization(r)
    \/ \E r \in RaceRequests : FaultReceive(r)
    \/ \E p \in pending : FaultHandle(p)
    \/ \E p \in pending, o \in EscapedOutcomes : HandlePendingSigningThrows(p, o)
    \/ ConnectionDropped
    \/ Close

FaultSpec ==
    /\ Init
    /\ [][FaultNext]_vars
    /\ \A i \in 1..MaxPending : SF_vars(HandleRequest(i))
    /\ WF_vars(Close)

\* The server over the lifetimes of its entries, never restarted.  The
\* sweep is a timer callback: it runs again and again whatever requests
\* arrive, and every response computed is eventually written.
SweepNext ==
    \/ \E r \in RaceAuthorizeRequests : CompleteAuthorization(r)
    \/ \E r \in SweepTokenRequests : PostToken(r)
    \/ \E r \in SweepBridgeRequests : PostPrivyAccessToken(r)
    \/ cleanup
    \/ \E t \in SweepClockValues : Advance(t)
    \/ Close

SweepSpec ==
    /\ Init
    /\ [][SweepNext]_vars
    /\ SF_vars(cleanup)
    /\ WF_vars(Close)

\* One client redeeming and refreshing in quick succession, and using the
\* access tokens it was given.
LineageNext ==
    \/ \E r \in RaceAuthorizeRequests : CompleteAuthorization(r)
    \/ \E r \in SweepTokenRequests : PostToken(r)
    \/ \E r \in SweepBridgeRequests : PostPrivyAccessToken(r)
    \/ \E t \in LineageClockValues : Advance(t)
    \/ Close

LineageSpec == Init /\ [][LineageNext]_vars

\* =================================================================== claims
\* the exchange being answered is a grant of the given type presenting k
AnswersGrant(grant, k) ==
    /\ last.op = "token"
    /\ last.req.grant_type = grant
    /\ ~Falsy(last.req.client_id)
    /\ Presented(last.req) = k
Succeeded == last.res.status = 200
FailedWith(error) == last.res.status # 200 /\ last.res.body.error = error

\* C1: for every authorization code at most one authorization_code grant ever
\* succeeds; once matching requests for the code that were in flight together
\* have been handled, exactly one of them has returned tokens; and every
\* request presenting the code after its redemption fails with invalid_grant.
SingleUseCode ==
    \A c \in DOMAIN issued :
        /\ redeemed[c] <= 1
        /\ attempts[c] >= 1 => redeemed[c] = 1
        /\ (AnswersGrant("authorization_code", c) /\ redeemed[c] = 1 /\ ~Succeeded)
                => FailedWith("invalid_grant")
        /\ (AnswersGrant("authorization_code", c) /\ Succeeded)
                => /\ redeemed[c] = 1
                   /\ c \notin DOMAIN authorizationCodes

\* two matching requests for code-1 were in flight together, both have been
\* handled, and the one handled second is being refused
SingleUseCodeWitness ==
    /\ "code-1" \in DOMAIN issued
    /\ attempts["code-1"] = 2
    /\ redeemed["code-1"] = 1
    /\ AnswersGrant("authorization_code", "code-1")
    /\ ValidRedemption(last.req)
    /\ FailedWith("invalid_grant")

\* C2: a refresh token that a refresh_token grant has consumed is no longer
\* stored, at most one grant ever succeeds with it, the refresh token returned
\* differs from it, every later grant presenting it fails with invalid_grant,
\* and of matching requests in flight together exactly one succeeds.
RefreshRotation ==
    \A rt \in DOMAIN lineage :
        /\ redeemed[rt] <= 1
        /\ redeemed[rt] = 1 => rt \notin DOMAIN refreshTokens
        /\ (rt \in DOMAIN attempts /\ attempts[rt] >= 1) => redeemed[rt] = 1
        /\ (AnswersGrant("refresh_token", rt) /\ Succeeded)
                => /\ last.res.body.refresh_token # rt
                   /\ last.res.body.refresh_token \in DOMAIN refreshTokens
                   /\ redeemed[rt] = 1
        /\ (AnswersGrant("refresh_token", rt) /\ redeemed[rt] = 1 /\ ~Succeeded)
                => FailedWith("invalid_grant")

\* two matching requests presenting rt-1 were in flight together, one has
\* rotated it, and the other is being refused
RefreshRotationWitness ==
    /\ "rt-1" \in DOMAIN attempts
    /\ attempts["rt-1"] = 2
    /\ redeemed["rt-1"] = 1
    /\ AnswersGrant("refresh_token", "rt-1")
    /\ ValidRefresh(last.req)
    /\ FailedWith("invalid_grant")
    /\ "rt-2" \in DOMAIN refreshTokens

\* C3: whenever the bridge answers 200 for an access token, the identity token
\* it returns is the one stored at authorization time with every code from
\* which that access token was minted, by redemption or by a later refresh.
BridgeReturnsFlowToken ==
    (last.op = "bridge" /\ Succeeded) =>
        \A m \in minted :
            m[1] = last.req.authorization.token
                => last.res.body.privyAccessToken = issued[m[2]].privyToken

\* the fields a flow carries from its authorization code to its tokens
SameFlow(a, b) ==
    /\ a.privyToken = b.privyToken
    /\ a.privyUserId = b.privyUserId
    /\ a.scopes = b.scopes
    /\ a.clientId = b.clientId

\* the step answers a refresh_token grant with tokens
RefreshSucceeds ==
    /\ last'.op = "token"
    /\ last'.req.grant_type = "refresh_token"
    /\ last'.res.status = 200

\* C4: the refresh-token record and the access-token record that a
\* refresh_token grant creates carry the identity token, subject, scopes and
\* client of the refresh token it consumed, and so those of the authorization
\* code the flow started from; the scope claim of the new access token is the
\* code's scopes.
RefreshCarriesFlow ==
    [][RefreshSucceeds =>
        LET consumed == refreshTokens[last'.req.refresh_token]
            origin == issued[lineage[last'.req.refresh_token]]
            newRefresh == refreshTokens'[last'.res.body.refresh_token]
            newAccess == tokens'[last'.res.body.access_token] IN
        /\ last'.res.body.refresh_token \notin DOMAIN refreshTokens
        /\ SameFlow(newRefresh, consumed)
        /\ SameFlow(newAccess, consumed)
        /\ SameFlow(newRefresh, origin)
        /\ SameFlow(newAccess, origin)
        /\ last'.res.body.access_token.scope = JoinWords(origin.scopes)
        /\ last'.res.body.access_token.sub = origin.privyUserId]_vars

\* rt-1 has been rotated into rt-2, whose record carries the identity token
\* of the code the flow started from, a token other than the first user's
RefreshCarriesFlowWitness ==
    /\ AnswersGrant("refresh_token", "rt-1")
    /\ Succeeded
    /\ last.res.body.refresh_token = "rt-2"
    /\ refreshTokens["rt-2"].privyToken = issued[lineage["rt-1"]].privyToken
    /\ refreshTokens["rt-2"].privyToken = "privy-tok-C"
    /\ "write" \in Range(refreshTokens["rt-2"].scopes)

\* C5: every stored authorization code has privy:token:exchange among its
\* scopes, and so has the scope claim of every access token minted from a
\* code or from a later refresh, and every stored token record.
BridgeScopeAlwaysGranted ==
    /\ \A c \in DOMAIN authorizationCodes :
            BridgeScope \in Range(authorizationCodes[c].scopes)
    /\ \A m \in minted : BridgeScope \in Range(SplitWords(m[1].scope))
    /\ \A a \in DOMAIN tokens : BridgeScope \in Range(tokens[a].scopes)
    /\ \A rt \in DOMAIN refreshTokens : BridgeScope \in Range(refreshTokens[rt].scopes)
    /\ (last.op = "authorize" /\ Succeeded)
            => BridgeScope \in Range(authorizationCodes[last.res.body.code].scopes)

\* a code was stored for a request that asked for no bridge scope
BridgeScopeAddedWitness ==
    /\ last.op = "authorize"
    /\ Succeeded
    /\ BridgeScope \notin Range(last.req.scope)
    /\ "write" \in Range(last.req.scope)
    /\ authorizationCodes[last.res.body.code].scopes = <<"read", "write", BridgeScope>>

CodeGrantStep ==
    /\ last'.op = "token"
    /\ last'.req.grant_type = "authorization_code"
    /\ ~Falsy(last'.req.client_id)
    /\ ~Falsy(last'.req.code) /\ ~Falsy(last'.req.code_verifier)
    /\ last'.req.code \in DOMAIN issued
RefusesGrant ==
    /\ last'.res.status = 400
    /\ last'.res.body.error = "invalid_grant"
    /\ tokens' = tokens
    /\ refreshTokens' = refreshTokens
    /\ nextRefresh' = nextRefresh
    /\ minted' = minted

\* C7: an authorization_code grant that presents a stored code after the
\* code's expiresAt is refused with invalid_grant, stores no access or refresh
\* token and deletes the code; no grant succeeds after the code's expiresAt,
\* which is 30 s after the code was stored.
ExpiredCodeRefused ==
    [][CodeGrantStep =>
        LET code == last'.req.code IN
        /\ (code \in DOMAIN authorizationCodes /\ authorizationCodes[code].expiresAt < now)
                => /\ RefusesGrant
                   /\ code \notin DOMAIN authorizationCodes'
        /\ issued[code].expiresAt < now => RefusesGrant
        /\ last'.res.status = 200 => now <= issued[code].expiresAt]_vars

\* code-1, still stored 30 s after it was issued, has been presented with
\* the right client, redirect URI and verifier, refused as expired and deleted
ExpiredCodeRefusedWitness ==
    /\ AnswersGrant("authorization_code", "code-1")
    /\ issued["code-1"].expiresAt = CodeTtl
    /\ issued["code-1"].expiresAt < now
    /\ last.req.client_id = issued["code-1"].clientId
    /\ last.req.redirect_uri = issued["code-1"].redirectUri
    /\ validatePKCE(last.req.code_verifier, issued["code-1"].codeChallenge)
    /\ FailedWith("invalid_grant")
    /\ last.res.body.error_description = "Authorization code has expired"
    /\ "code-1" \notin DOMAIN authorizationCodes
    /\ redeemed["code-1"] = 0

\* C8: an authorization_code grant succeeds only if its client_id is the
\* code's clientId and its redirect_uri, when supplied, is the code's
\* redirectUri; otherwise it is refused with invalid_grant and no access-token
\* or refresh-token record is created.
ClientAndRedirectMustMatch ==
    [][CodeGrantStep =>
        LET authCode == issued[last'.req.code]
            matches == /\ last'.req.client_id = authCode.clientId
                       /\ (Falsy(last'.req.redirect_uri)
                           \/ last'.req.redirect_uri = authCode.redirectUri) IN
        /\ last'.res.status = 200 => matches
        /\ ~matches => RefusesGrant]_vars

\* a stored, unexpired code-1 has been presented with the right client and
\* verifier and another registered redirect URI, and refused
RedirectMismatchWitness ==
    /\ AnswersGrant("authorization_code", "code-1")
    /\ "code-1" \in DOMAIN authorizationCodes
    /\ ~(issued["code-1"].expiresAt < now)
    /\ last.req.client_id = issued["code-1"].clientId
    /\ ~Falsy(last.req.redirect_uri)
    /\ last.req.redirect_uri # issued["code-1"].redirectUri
    /\ validatePKCE(last.req.code_verifier, issued["code-1"].codeChallenge)
    /\ FailedWith("invalid_grant")
    /\ last.res.body.error_description = "redirect_uri does not match"

\* C9: validatePKCE is true for the unpadded base64url SHA-256 of the
\* verifier and for no other challenge met (that of another verifier, or the
\* padded encoding); a grant succeeds only if the stored challenge is that
\* value for the verifier sent, and is otherwise refused with invalid_grant
\* without issuing tokens.
PkceMustValidate ==
    [][CodeGrantStep =>
        LET authCode == issued[last'.req.code]
            expected == Base64UrlNoPad(Sha256(last'.req.code_verifier)) IN
        /\ validatePKCE(last'.req.code_verifier, authCode.codeChallenge)
                <=> authCode.codeChallenge = expected
        /\ \A v \in Verifiers :
                validatePKCE(last'.req.code_verifier, CodeChallengeOf(v))
                    <=> v = last'.req.code_verifier
        /\ last'.res.status = 200 => authCode.codeChallenge = expected
        /\ authCode.codeChallenge # expected => RefusesGrant]_vars

\* a stored, unexpired code-1 has been presented with the right client and
\* redirect URI and the verifier of another challenge, and refused
PkceMismatchWitness ==
    /\ AnswersGrant("authorization_code", "code-1")
    /\ "code-1" \in DOMAIN authorizationCodes
    /\ ~(issued["code-1"].expiresAt < now)
    /\ last.req.client_id = issued["code-1"].clientId
    /\ last.req.redirect_uri = issued["code-1"].redirectUri
    /\ issued["code-1"].codeChallenge = CodeChallengeOf("verifier-1")
    /\ last.req.code_verifier = "verifier-2"
    /\ FailedWith("invalid_grant")
    /\ last.res.body.error_description = "Invalid code_verifier (PKCE validation failed)"

\* the step answers an authorization-completion request
AuthorizeStep == last'.op = "authorize"

AnswersProtected == last.op \in {"mcp", "bridge"}
RequiredScopes == IF last.op = "mcp" THEN {"read"} ELSE {BridgeScope}
BearerToken == last.req.authorization.token
HandlerRan == last.res.status \notin {401, 403}

ErrorBodiesCarryDescription ==
    (last.op \in {"token", "bridge", "mcp"} /\ last.res.status # 200)
        => /\ DOMAIN last.res.body = {"error", "error_description"}
           /\ last.op = "token" => last.res.status = 400

\* C15: POST /token without client_id fails with invalid_request whatever
\* its grant_type; with client_id and a grant_type other than
\* authorization_code and refresh_token (or none) it fails with
\* unsupported_grant_type; an authorization_code grant without code or
\* code_verifier and a refresh_token grant without refresh_token fail with
\* invalid_request; all with status 400, and none changes a stored collection.
MalformedTokenRequestRefused ==
    [][(last.op = "idle" /\ last'.op = "token") =>
        LET r == last'.req
            noClient == Falsy(r.client_id)
            otherGrant == ~noClient /\ r.grant_type \notin {"authorization_code", "refresh_token"}
            noCode == /\ ~noClient /\ r.grant_type = "authorization_code"
                      /\ (Falsy(r.code) \/ Falsy(r.code_verifier))
            noRefresh == ~noClient /\ r.grant_type = "refresh_token" /\ Falsy(r.refresh_token)
            Refused(error) == /\ last'.res.status = 400
                              /\ last'.res.body.error = error
                              /\ stores' = stores IN
        /\ noClient => Refused("invalid_request")
        /\ otherGrant => Refused("unsupported_grant_type")
        /\ noCode => Refused("invalid_request")
        /\ noRefresh => Refused("invalid_request")]_vars

\* a request with client_id and no grant_type is being refused while a code
\* and a refresh token are stored
UnsupportedGrantWitness ==
    /\ last.op = "token"
    /\ Falsy(last.req.grant_type)
    /\ ~Falsy(last.req.client_id)
    /\ FailedWith("unsupported_grant_type")
    /\ DOMAIN authorizationCodes # {}
    /\ DOMAIN refreshTokens # {}

\* C16: POST /token/introspect, which takes no credentials, answers
\* active:true with the sub, scope, client_id, exp, iat, iss and aud of the
\* presented token exactly when that token carries the server's signature
\* and issuer and has not expired, answers {active:false} to every other
\* input (forged, foreign, expired or missing token), and changes no store.
IntrospectionReportsValidity ==
    [][(last.op = "idle" /\ last'.op = "introspect") =>
        LET r == last'.req
            body == last'.res.body
            valid == /\ r.supplied
                     /\ r.token.sig = "key-1"
                     /\ r.token.iss = Issuer
                     /\ (now \div TicksPerSecond) < r.token.exp IN
        /\ stores' = stores
        /\ valid => /\ last'.res.status = 200
                    /\ DOMAIN body = {"active", "sub", "scope", "client_id",
                                      "exp", "iat", "iss", "aud"}
                    /\ body.active
                    /\ body.sub = r.token.sub /\ body.scope = r.token.scope
                    /\ body.client_id = r.token.client_id /\ body.exp = r.token.exp
                    /\ body.iat = r.token.iat /\ body.iss = r.token.iss
                    /\ body.aud = r.token.aud
        /\ ~valid => /\ DOMAIN body = {"active"}
                     /\ ~body.active]_vars

\* a token that this server minted is introspected after its hour, while
\* its record is still stored, and reported inactive
ExpiredTokenInactiveWitness ==
    /\ last.op = "introspect"
    /\ last.req.supplied
    /\ last.req.token \in DOMAIN tokens
    /\ (now \div TicksPerSecond) >= last.req.token.exp
    /\ ~last.res.body.active

\* a grant is being answered with tokens by this step
GrantSucceeds == last.op = "idle" /\ last'.op = "token" /\ last'.res.status = 200

\* C17: when a grant succeeds, the record stored under the returned JWT has
\* the clientId, the subject and the scopes that the JWT carries as client_id,
\* sub and (split on spaces) scope; the JWT's iss is the server's issuer and
\* its aud the resource of the request, or the base URL when there is none;
\* and the scope of the response is the JWT's scope claim.
RecordMatchesJwt ==
    [][GrantSucceeds =>
        LET jwt == last'.res.body.access_token
            rec == tokens'[jwt] IN
        /\ jwt \in DOMAIN tokens'
        /\ rec.clientId = jwt.client_id
        /\ rec.privyUserId = jwt.sub
        /\ rec.scopes = SplitWords(jwt.scope)
        /\ jwt.iss = Issuer
        /\ jwt.aud = (IF last'.req.resource = Absent THEN BaseUrl ELSE last'.req.resource)
        /\ last'.res.body.scope = jwt.scope]_vars

\* a code has been redeemed for another resource: the JWT returned names it
\* as audience and its record is stored
ResourceAudienceWitness ==
    /\ last.op = "token"
    /\ Succeeded
    /\ last.req.resource = OtherResource
    /\ last.res.body.access_token.aud = OtherResource
    /\ last.res.body.access_token \in DOMAIN tokens

\* C18: every successful authorization returns a code that was never issued
\* before, and every successful grant returns an access token and a refresh
\* token that no earlier grant returned, so that a grant never stores its
\* record over the record of another.
GrantsYieldFreshCredentials ==
    [][/\ (last.op = "idle" /\ last'.op = "authorize" /\ last'.res.status = 200)
            => last'.res.body.code \notin DOMAIN issued
       /\ GrantSucceeds
            => /\ last'.res.body.refresh_token \notin DOMAIN lineage
               /\ last'.res.body.access_token \notin {m[1] : m \in minted}
               /\ last'.res.body.access_token \notin DOMAIN tokens]_vars

\* C19: a bridge request whose token passes the middleware with the bridge
\* scope and has no record among the stored access tokens is answered with
\* the not-found error (404 token_not_found) and is given no identity token.
MissingRecordNotFound ==
    (/\ last.op = "bridge"
     /\ validateToken(last.req.authorization, {BridgeScope}, now) = "next"
     /\ BearerToken \notin DOMAIN tokens)
        => /\ last.res.status = 404
           /\ last.res.body.error = "token_not_found"
           /\ "privyAccessToken" \notin DOMAIN last.res.body

\* after a restart the bridge is asked with an unexpired token that this
\* server minted, and answers not found
RecordLostByRestartWitness ==
    /\ last.op = "bridge"
    /\ BearerToken \in {m[1] : m \in minted}
    /\ (now \div TicksPerSecond) < BearerToken.exp
    /\ tokens = <<>>
    /\ last.res.status = 404

\* C20: every authorization code is stored with expiresAt 30 seconds after
\* its creation; every refresh token, whether stored by a redemption or by a
\* rotation, with expiresAt 30 days after its issuance; every access token
\* has exp one hour after iat, a record expiring one hour after the grant and
\* expires_in = 3600; whatever the parameters of the request.
LifetimesAreFixed ==
    [][/\ (last.op = "idle" /\ last'.op = "authorize" /\ last'.res.status = 200)
            => authorizationCodes'[last'.res.body.code].expiresAt
                    = now + 30 * TicksPerSecond
       /\ GrantSucceeds
            => LET jwt == last'.res.body.access_token IN
               /\ refreshTokens'[last'.res.body.refresh_token].expiresAt
                    = now + 30 * 24 * 60 * 60 * TicksPerSecond
               /\ jwt.exp = jwt.iat + 60 * 60
               /\ tokens'[jwt].expiresAt = now + 60 * 60 * TicksPerSecond
               /\ last'.res.body.expires_in = 3600]_vars

\* a refresh token is rotated later than the server's start by a request
\* that followed a redemption
RotatedLaterWitness ==
    /\ last.op = "token"
    /\ last.req.grant_type = "refresh_token"
    /\ Succeeded
    /\ now > 0
    /\ refreshTokens[last.res.body.refresh_token].expiresAt = now + RefreshTokenTtl

\* C21: the scopes stored with an authorization code are exactly the
\* requested scopes that the server supports (read, write, profile and the
\* bridge scope; read alone when the request names no scope) together with
\* the bridge scope.
StoredScopesAreSupportedRequested ==
    (last.op = "authorize" /\ Succeeded) =>
        Range(authorizationCodes[last.res.body.code].scopes)
            = (IF last.req.scope = <<>> THEN {"read"}
               ELSE Range(last.req.scope)
                        \cap {"read", "write", "profile", "privy:token:exchange"})
              \cup {"privy:token:exchange"}

\* a code was stored for a request naming read, invalid-scope-xyz and write
UnsupportedScopeDroppedWitness ==
    /\ last.op = "authorize"
    /\ Succeeded
    /\ "invalid-scope-xyz" \in Range(last.req.scope)
    /\ authorizationCodes[last.res.body.code].scopes = <<"read", "write", BridgeScope>>

\* C22: when the identity verifier rejects the identity token of an
\* authorization-completion request, the request is answered with the
\* authentication error (401 invalid_token) and no authorization code is
\* stored, whatever other token the request carries.
RejectedIdentityIsTerminal ==
    [][(/\ last.op = "idle"
        /\ last'.op = "authorize"
        /\ ~Falsy(last'.req.state)
        /\ ~Falsy(last'.req.privy_token)
        /\ ~PrivyAccepts(last'.req.privy_token))
        => /\ last'.res.status = 401
           /\ last'.res.body.error = "invalid_token"
           /\ authorizationCodes' = authorizationCodes]_vars

\* request i is in flight: received and not yet answered
InFlight(i) == \E p \in pending : p.id = i

\* C23: every request to POST /token is eventually answered, and a failure
\* raised inside a grant handler is answered with the server_error response
\* (status 500, error server_error) and with nothing else.
EveryTokenRequestAnswered ==
    /\ \A i \in 1..MaxPending : InFlight(i) ~> ~InFlight(i)
    /\ [](\A p \in pending : ~p.escaped)
    /\ []((last.op = "token" /\ last.res.status = 500)
            => /\ "error" \in DOMAIN last.res.body
               /\ last.res.body.error = "server_error")

\* the credential k was issued and is not stored any more
Consumed(k) ==
    \/ k \in DOMAIN issued /\ k \notin DOMAIN authorizationCodes
    \/ k \in DOMAIN lineage /\ k \notin DOMAIN refreshTokens
StoredAfter(k) == k \in DOMAIN authorizationCodes' \/ k \in DOMAIN refreshTokens'

\* C24: a credential that a grant handler has deleted is never stored again:
\* a handler that gets past its checks leaves the presented code or refresh
\* token deleted whether it then answers, fails or loses its caller, and
\* every later request presenting that credential fails with invalid_grant.
ConsumedCredentialStaysConsumed ==
    [][/\ \A k \in DOMAIN issued \cup DOMAIN lineage : Consumed(k) => ~StoredAfter(k)
       /\ (last.op = "idle" /\ last'.op = "token" /\ last'.res.status \in {200, 500})
            => ~StoredAfter(Presented(last'.req))
       /\ \A p \in pending' : (p.escaped /\ p \notin pending) => ~StoredAfter(Presented(p.req))
       /\ (last.op = "idle" /\ last'.op = "token" /\ Consumed(Presented(last'.req)))
            => /\ last'.res.status = 400
               /\ last'.res.body.error = "invalid_grant"]_vars

\* code-1 was deleted by a handler that then failed, no grant ever succeeded
\* with it, and a retry presenting it is being refused
RetryAfterFailureWitness ==
    /\ "code-1" \in DOMAIN issued
    /\ redeemed["code-1"] = 0
    /\ "code-1" \notin DOMAIN authorizationCodes
    /\ AnswersGrant("authorization_code", "code-1")
    /\ last.res.status = 400
    /\ FailedWith("invalid_grant")

\* some stored entry has an expiresAt that has passed
ExpiredIn(m) == \E k \in DOMAIN m : m[k].expiresAt < now
SomeExpiredStored ==
    ExpiredIn(authorizationCodes) \/ ExpiredIn(tokens) \/ ExpiredIn(refreshTokens)
\* m loses in this step only entries that have expired or that the request
\* answered by the step presented
LosesOnlyExpired(m, mAfter) ==
    \A k \in DOMAIN m \ DOMAIN mAfter :
        \/ m[k].expiresAt < now
        \/ /\ last.op = "idle" /\ last'.op = "token"
           /\ Presented(last'.req) = k
\* the step is a run of the sweep
SweepStep == last.op = "idle" /\ last'.op = "idle" /\ now' = now /\ stores' # stores

MatchingRequest(k) ==
    IF k \in DOMAIN issued
    THEN TokenRequest("authorization_code", issued[k].clientId, k, "verifier-1",
                      issued[k].redirectUri, Absent, Absent)
    ELSE TokenRequest("refresh_token", issued[lineage[k]].clientId, Absent, Absent,
                      Absent, Absent, k)
\* the credential presented is stored and its expiresAt has passed
PresentedHasExpired(r) ==
    \/ /\ r.grant_type = "authorization_code"
       /\ r.code \in DOMAIN authorizationCodes
       /\ authorizationCodes[r.code].expiresAt < now
    \/ /\ r.grant_type = "refresh_token"
       /\ r.refresh_token \in DOMAIN refreshTokens
       /\ refreshTokens[r.refresh_token].expiresAt < now

\* C26: a POST /token request that fails, unless it presents a stored
\* credential that has expired, leaves the stored codes, access-token
\* records and refresh tokens as they were, and every code or refresh token
\* that a correct request could redeem before it can still be redeemed
\* after it.
FailedRequestLeavesStores ==
    [][(/\ last.op = "idle"
        /\ last'.op = "token"
        /\ last'.res.status # 200
        /\ ~PresentedHasExpired(last'.req))
        => /\ authorizationCodes' = authorizationCodes
           /\ tokens' = tokens
           /\ refreshTokens' = refreshTokens
           /\ \A k \in DOMAIN issued \cup DOMAIN lineage :
                ReachesIssueAccessToken(MatchingRequest(k))
                    => ReachesIssueAccessToken(MatchingRequest(k))']_vars

\* code-1 has been presented with a wrong verifier, the request is refused,
\* and the code is still stored and redeemable
FailedAttemptKeepsCodeWitness ==
    /\ AnswersGrant("authorization_code", "code-1")
    /\ FailedWith("invalid_grant")
    /\ last.req.code_verifier = "verifier-2"
    /\ "code-1" \in DOMAIN authorizationCodes
    /\ ReachesIssueAccessToken(MatchingRequest("code-1"))

\* the stored refresh tokens that descend from the code c
StoredDescendants(c) == {rt \in DOMAIN refreshTokens : lineage[rt] = c}

\* C27: at most one stored refresh token descends from any authorization
\* code, and no stored refresh token descends from a code that is still
\* stored; a successful grant leaves exactly one for its code.
OneRefreshTokenPerCode ==
    /\ \A c \in DOMAIN issued : Cardinality(StoredDescendants(c)) <= 1
    /\ \A rt \in DOMAIN refreshTokens : lineage[rt] \notin DOMAIN authorizationCodes
    /\ (last.op = "token" /\ Succeeded)
            => StoredDescendants(lineage[last.res.body.refresh_token])
                    = {last.res.body.refresh_token}

\* two rotations of rt-1 were in flight together: rt-2 is the only stored
\* descendant of code-1
RotatedOnceWitness ==
    /\ "rt-1" \in DOMAIN attempts
    /\ attempts["rt-1"] = 2
    /\ StoredDescendants("code-1") = {"rt-2"}
    /\ "code-1" \notin DOMAIN authorizationCodes

\* C28: a successful refresh_token grant adds at most the record of the
\* token it minted to the stored access-token records: every record stored
\* before the grant is stored after it, unaltered.
RefreshKeepsEarlierRecords ==
    [][(last.op = "idle" /\ RefreshSucceeds) =>
        /\ DOMAIN tokens' \subseteq DOMAIN tokens \cup {last'.res.body.access_token}
        /\ \A k \in DOMAIN tokens : k \in DOMAIN tokens' /\ tokens'[k] = tokens[k]]_vars

\* C29: without a restart, every access token minted for the base URL whose
\* exp has not been reached has its record in the store, with an expiresAt
\* that is not before the token's exp, and the bridge answers such a token
\* with its record and never with not-found.
VerifiableTokenHasRecord ==
    /\ \A m \in minted :
            (m[1].aud = BaseUrl /\ (now \div TicksPerSecond) < m[1].exp)
                => /\ m[1] \in DOMAIN tokens
                   /\ tokens[m[1]].expiresAt >= m[1].exp * TicksPerSecond
    /\ (last.op = "bridge" /\ last.req.authorization.token.aud = BaseUrl
            /\ (now \div TicksPerSecond) < last.req.authorization.token.exp)
            => last.res.status = 200

\* in the last tick of its hour, after a sweep that removed a code nobody
\* redeemed, the bridge is answering the token minted at the start
BridgeInLastTickWitness ==
    /\ last.op = "bridge"
    /\ now = AccessRecordTtl - 1
    /\ last.req.authorization.token.iat = 0
    /\ last.res.status = 200
    /\ \E c \in DOMAIN issued : redeemed[c] = 0 /\ c \notin DOMAIN authorizationCodes

\* a bearer request presenting the token tok
Presenting(tok) == [authorization |-> [scheme |-> "Bearer ", token |-> tok]]

\* C30: a token with which a protected endpoint got past the bearer
\* middleware is reported active by introspection, with the sub, scope and
\* client_id the middleware attached to the request; and a token that
\* introspection reports inactive is answered 401 by POST /mcp and by the
\* bridge.
AcceptedTokenIsActive ==
    /\ (AnswersProtected /\ HandlerRan) =>
            LET seen == IntrospectResponse([supplied |-> TRUE, token |-> BearerToken]).body IN
            /\ seen.active
            /\ seen.sub = BearerToken.sub
            /\ seen.scope = BearerToken.scope
            /\ seen.client_id = BearerToken.client_id
            /\ last.op = "mcp" =>
                    /\ last.res.body.auth.userId = seen.sub
                    /\ last.res.body.auth.scopes = TokenScopes([scope |-> seen.scope])
    /\ (last.op = "introspect" /\ last.req.supplied /\ ~last.res.body.active) =>
            /\ McpResponse(Presenting(last.req.token)).status = 401
            /\ PrivyAccessTokenResponse(Presenting(last.req.token)).status = 401

\* in the last tick of its hour, after a restart emptied the stores, POST /mcp
\* is answering a token minted at the start
AcceptedWithoutRecordWitness ==
    /\ last.op = "mcp"
    /\ last.res.status = 200
    /\ now = AccessRecordTtl - 1
    /\ BearerToken.iat = 0
    /\ tokens = <<>>

====
